---- MODULE Spec2Model ----
(***************************************************************************)
(* Audio intelligence engine of TimoVisual: the spectral feature extractor *)
(* and tempo estimator of src/hooks/useAudioAnalyzer.ts, the procedural    *)
(* sequencer of src/utils/audioSynth.ts, and the handlers and the analysis *)
(* loop of src/App.tsx.                                                    *)
(*                                                                         *)
(* Numbers.  The program computes in IEEE doubles.  The model computes in  *)
(* fixed point: a float x is the integer floor(x * Scale).  Bin magnitudes *)
(* (Uint8) and millisecond timestamps are plain integers.  NaN, which the  *)
(* program produces when it reads a bin past the end of a frame, is the    *)
(* distinguished value NaN and is propagated as JavaScript propagates it.  *)
(* The audio clock ctx.currentTime is kept in whole milliseconds, a note's *)
(* timestamp in 1/Scale ms, a Math.random() outcome in thousandths.        *)
(***************************************************************************)
EXTENDS Integers, Sequences, FiniteSets, TLC

\* ------------------------------------------------------------------ bounds

\* Fixed-point resolution: units per 1.0.
Scale == 1000

\* Extractor calls (bass, mid, high) with an arbitrary frame in one run.
MaxPolls == 5

\* Length of the run of all-zero frames polled through getBassEnergy.
MaxSilent == 160

\* Extractor calls with an arbitrary frame after the run of all-zero frames.
MaxAfter == 2

\* Extractor calls on frames of arbitrary length in one run.
MaxShort == 2

\* The latest reading of performance.now(), in ms.
MaxTime == 2800

\* Runs of the animation-frame callback in one run.
MaxTicks == 3

\* The latest reading of ctx.currentTime, in ms, with every sequencer
\* operation allowed at any moment.
MaxAudio == 100

\* The latest reading of ctx.currentTime, in ms, with the sequencer left
\* running after play().
MaxBarTime == 7200

\* play() is called no later than this, in ms, when the sequencer is left
\* running.
MaxStart == 100

\* Calls of the sequencer's methods in one run.
MaxCalls == 3

\* Calls of the sequencer's methods the application's handlers make in one
\* run.
MaxSourceCalls == 3

\* Pending callbacks of handleGenerate, and pending handleSystemAudio calls.
MaxPending == 1

\* Runs of the animation-frame callback while an estimate is reached and then
\* kept through stops and source changes.
MaxKeepTicks == 13

\* The clock reading up to which detectBpm is called while its interval
\* history fills up and overflows, in ms.
MaxFifoTime == 5400

\* Runs of the animation-frame callback while a started source is analysed
\* for its tempo.
MaxBeatTicks == 8

\* ------------------------------------------------------- program constants

\* analyser.fftSize = 512; frequencyBinCount is half of it.
FftSize == 512
BinCount == FftSize \div 2

\* const bassBins = 4
bassBins == 4

\* Math.max(maxVolumeRef.current, 50.0)
FloorMax == 50

\* Uint8 magnitude ceiling, and the clamp of the band outputs.
Full == 255

\* beatRef.minThreshold
minThreshold == 80

\* ------------------------------------------------------------- arithmetic

\* data[i] with i >= data.length is undefined; undefined in arithmetic is NaN.
NaN == -1

Abs(x) == IF x < 0 THEN 0 - x ELSE x

Max2(a, b) == IF a >= b THEN a ELSE b
Min2(a, b) == IF a <= b THEN a ELSE b

\* a + b, a - b on floats.
FAdd(a, b) == IF a = NaN \/ b = NaN THEN NaN ELSE a + b
FSub(a, b) == IF a = NaN \/ b = NaN THEN NaN ELSE a - b

\* a * (p / q) for a literal factor p/q (0.8 = 8/10, 2.5 = 25/10, ...).
FScale(a, p, q) == IF a = NaN THEN NaN ELSE (a * p) \div q

\* Math.max(a, b) and Math.min(a, b): NaN if either argument is NaN.
FMax(a, b) == IF a = NaN \/ b = NaN THEN NaN ELSE Max2(a, b)
FMin(a, b) == IF a = NaN \/ b = NaN THEN NaN ELSE Min2(a, b)

\* ------------------------------------------------------------------ frames

\* data[i] for the zero-based index i of the code.
At(data, i) == IF i < Len(data) THEN data[i + 1] ELSE NaN

\* data[lo] + ... + data[hi-1] for bins inside the frame (summed by halves).
RECURSIVE SumIn(_, _, _)
SumIn(data, lo, hi) ==
    IF lo >= hi THEN 0
    ELSE IF hi = lo + 1 THEN data[lo + 1]
    ELSE LET half == (lo + hi) \div 2
         IN  SumIn(data, lo, half) + SumIn(data, half, hi)

\* sum += data[i] for i = lo .. hi-1: NaN as soon as one bin read is past the
\* end of the frame (x + undefined is NaN, and NaN + x stays NaN).
SumBins(data, lo, hi) ==
    IF lo < hi /\ At(data, hi - 1) = NaN THEN NaN ELSE SumIn(data, lo, hi)

\* A frame of len bins: b in the bass bins, m up to bin 49, h from bin 50 on.
MkFrame(b, m, h, len) ==
    [i \in 1..len |-> IF i <= bassBins THEN b ELSE IF i <= 50 THEN m ELSE h]

Silent == MkFrame(0, 0, 0, BinCount)
Kick == MkFrame(200, 60, 0, BinCount)
Loud == MkFrame(Full, Full, Full, BinCount)

\* What getByteFrequencyData may deliver (a sample of the Uint8 frames).
Frames == {Silent, Kick, Loud}

\* Frames of a source with another bin count, down to the empty frame.
FrameLens == {0, 3, 20, 100, BinCount}
AnyLenFrames == {MkFrame(b, b, b, n) : b \in {0, 200}, n \in FrameLens}

\* ------------------------------------------------------------------- state

VARIABLES
    analyser,     \* analyserRef.current # null (isReady is set with it)
    maxVolume,    \* maxVolumeRef.current
    gain,         \* gainRef.current
    history,      \* historyRef.current: bass, mid, high
    ret,          \* the last extractor call: band, result, loop bound, frame length
    safeMaxUsed,  \* safeMax of the last updateAutoGain call
    gainCalls,    \* number of updateAutoGain calls so far
    run,          \* the current run of getBassEnergy polls on bass bins = 200
    polls,        \* extractor calls with the analyser present (after the silence)
    silent,       \* length of the leading run of all-zero getBassEnergy polls
    now,          \* the last reading of performance.now(), in ms
    beat,         \* beatRef.current: lastBeatTime, intervals, threshold
    bpmRet,       \* what the last detectBpm call returned
    train,        \* the spikes seen so far, while they come exactly 500 ms apart
    shifted,      \* intervals shifted out of beatRef.current.intervals so far
    isPlaying,    \* App state isPlaying
    mode,         \* App state mode: file, synth or system
    features,     \* App state features: bass, high
    audioSrc,     \* audioRef.current.src is set
    bpm,          \* App state bpm
    lastBpmUpdate,\* lastBpmUpdate.current
    energyState,  \* energyState.current: bass, mid, high, total
    loopPc,       \* where the running loop callback stands
    tick,         \* locals of the running loop callback: frame, bass, high
    tickLog,      \* what the current loop callback ran so far, in order
    ticks,        \* loop callbacks run so far
    synth,        \* the TechnoSynth instance (synthRef.current), made or not
    timers,       \* the pending window.setTimeout entries of scheduler()
    timerSeq,     \* the last timer id window.setTimeout handed out
    audioTime,    \* ctx.currentTime, in ms
    fired,        \* the notes scheduleNote fired in the last sequencer call
    synthOp,      \* the last sequencer call: operation, style argument
    stopped,      \* stop() has returned and play() was not called since
    bar,          \* the steps fired in a row in the current bar, from its step 0
    calls,        \* calls of the sequencer's methods so far
    synthStyle,   \* App state synthStyle
    sourceRef,    \* sourceRef.current: none, or the node last connected
    connected,    \* the nodes whose output is connected to the analyser
    genTimers,    \* the pending 50 ms callbacks of handleGenerate, oldest first
    sysPending,   \* handleSystemAudio calls awaiting their media stream
    streamLive    \* a captured stream whose onended handler is installed

extractor == <<maxVolume, gain, history>>
observed == <<ret, safeMaxUsed, gainCalls, run, polls, silent>>
hookVars == <<analyser, maxVolume, gain, history, ret, safeMaxUsed, gainCalls,
              run, polls, silent>>

beatVars == <<now, beat, bpmRet, train, shifted>>

appVars == <<isPlaying, mode, features, audioSrc, bpm, lastBpmUpdate,
             energyState, loopPc, tick, tickLog, ticks>>

synthVars == <<synth, timers, timerSeq, audioTime, fired, synthOp, stopped,
               bar, calls>>

routeVars == <<synthStyle, sourceRef, connected, genTimers, sysPending,
               streamLive>>

vars == <<analyser, maxVolume, gain, history, ret, safeMaxUsed, gainCalls, run,
          polls, silent, now, beat, bpmRet, train, shifted, isPlaying, mode,
          features,
          audioSrc, bpm, lastBpmUpdate, energyState, loopPc, tick, tickLog,
          ticks, synth, timers, timerSeq, audioTime, fired, synthOp, stopped,
          bar, calls, synthStyle, sourceRef, connected, genTimers, sysPending,
          streamLive>>

NoCall == [op |-> "none", val |-> 0, hi |-> 0, len |-> 0]
NoRun == [len |-> 0, first |-> 0, last |-> 0, fresh |-> FALSE]

\* detectBpm returning null.
NoBpm == [null |-> TRUE, val |-> 0]

NoTrain == [n |-> 0, t0 |-> 0, last |-> 0, ok |-> TRUE, just |-> FALSE]

\* synthRef.current = null; the fields are the class's initialisers.
NoSynth ==
    [made |-> FALSE, isPlaying |-> FALSE, tempo |-> 130, style |-> "minimal",
     nextNoteTime |-> 0, current16thNote |-> 0, timerID |-> 0,
     bassPattern |-> <<>>]

NoOp == [op |-> "none", arg |-> "", was |-> "", prev |-> "none"]
NoBar == [k |-> 0, n |-> 0, kicks |-> {}, hard |-> TRUE]

\* The refs as useRef initialises them.
Fresh ==
    /\ analyser = FALSE
    /\ maxVolume = 100 * Scale
    /\ gain = Scale
    /\ history = [bass |-> 0, mid |-> 0, high |-> 0]
    /\ ret = NoCall
    /\ safeMaxUsed = 0
    /\ gainCalls = 0
    /\ run = NoRun
    /\ polls = 0
    /\ silent = 0
    /\ beat = [lastBeatTime |-> 0, intervals |-> <<>>, threshold |-> 0]
    /\ bpmRet = NoBpm
    /\ train = NoTrain
    /\ shifted = 0
    /\ isPlaying = FALSE
    /\ mode = "file"
    /\ features = [bass |-> TRUE, high |-> TRUE]
    /\ audioSrc = FALSE
    /\ bpm = 120
    /\ lastBpmUpdate = 0
    /\ energyState = [bass |-> 0, mid |-> 0, high |-> 0, total |-> 0]
    /\ loopPc = "idle"
    /\ tick = [frame |-> <<>>, bass |-> 0, high |-> 0]
    /\ tickLog = <<>>
    /\ ticks = 0
    /\ synth = NoSynth
    /\ timers = {}
    /\ timerSeq = 0
    /\ audioTime = 0
    /\ fired = <<>>
    /\ synthOp = NoOp
    /\ stopped = FALSE
    /\ bar = NoBar
    /\ calls = 0
    /\ synthStyle = "hard"
    /\ sourceRef = "none"
    /\ connected = {}
    /\ genTimers = <<>>
    /\ sysPending = 0
    /\ streamLive = FALSE

Init == now = 0 /\ Fresh

\* -------------------------------------------------------- updateAutoGain

\* for (i < data.length) if (data[i] > frameMax) frameMax = data[i]
FrameMax(data) ==
    LET seen == {data[i] : i \in 1..Len(data)} \cup {0}
    IN  CHOOSE m \in seen : \A x \in seen : x <= m

\* Fast attack, slow release: snap to a louder frame, else decay by 0.995.
Envelope(mv, frameMax) ==
    IF frameMax * Scale > mv THEN frameMax * Scale ELSE (mv * 995) \div 1000

SafeMaxNoFloor(mv) == mv

SafeMaxLowFloor(mv) == Max2(mv, 5 * Scale)

SafeMax(mv) == Max2(mv, FloorMax * Scale)

\* 255.0 / safeMax
TargetGain(safeMax) == (Full * Scale * Scale) \div safeMax

\* gainRef.current += (targetGain - gainRef.current) * 0.1
SmoothGain(g, target) == g + ((target - g) \div 10)

\* The gain state after updateAutoGain(data).
UpdateAutoGain(data) ==
    LET mv == Envelope(maxVolume, FrameMax(data))
        sm == SafeMax(mv)
    IN  [maxVolume |-> mv, safeMax |-> sm,
         gain |-> SmoothGain(gain, TargetGain(sm))]

\* ----------------------------------------------------------- extractors

\* (sum / count) * gain
BandAvg(sum, count, g) == IF sum = NaN THEN NaN ELSE (sum * g) \div count

\* Whether the bass bins of a frame all equal 200.
IsSteady200(data) ==
    /\ Len(data) >= bassBins
    /\ \A i \in 1..bassBins : data[i] = 200

\* The gain state and bass history of a new hook instance.
IsInitial == maxVolume = 100 * Scale /\ gain = Scale /\ history.bass = 0

\* The bass result: 80% clamped transient, 20% body.
BassBlend(kick, currentAvg) ==
    FAdd(FScale(FMin(FScale(kick, 25, 10), Full * Scale), 8, 10),
         FScale(currentAvg, 2, 10))

\* The loop bound of the bass sum: i < bassBins.
BassHi(data) == bassBins

BassHistoryKept(prev, currentAvg) == prev

\* historyRef.current.bass = currentAvg
BassHistory(prev, currentAvg) == currentAvg

\* if (!analyserRef.current) return 0
Unavailable(band) ==
    /\ ret' = [op |-> band, val |-> 0, hi |-> 0, len |-> 0]
    /\ UNCHANGED <<analyser, maxVolume, gain, history, safeMaxUsed, gainCalls,
                   run, polls, silent>>

\* getBassEnergy past its guard, on the frame getFrequencyData returned.
BassPoll(data) ==
    LET g == UpdateAutoGain(data)
        sum == SumBins(data, 0, BassHi(data))
        currentAvg == BandAvg(sum, bassBins, g.gain)
        kick == FMax(0, FSub(currentAvg, history.bass))
        quiet == data = Silent /\ polls = 0
    IN  /\ maxVolume' = g.maxVolume
        /\ gain' = g.gain
        /\ safeMaxUsed' = g.safeMax
        /\ gainCalls' = gainCalls + 1
        /\ history' = [history EXCEPT !.bass = BassHistory(@, currentAvg)]
        /\ ret' = [op |-> "bass", val |-> BassBlend(kick, currentAvg),
                   hi |-> BassHi(data), len |-> Len(data)]
        /\ run' = IF ~IsSteady200(data) THEN NoRun
                  ELSE IF run.len = 0
                       THEN [len |-> 1, first |-> kick, last |-> kick,
                             fresh |-> IsInitial]
                       ELSE [run EXCEPT !.len = @ + 1, !.last = kick]
        /\ silent' = IF quiet THEN silent + 1 ELSE silent
        /\ polls' = IF quiet THEN polls ELSE polls + 1
        /\ UNCHANGED analyser

\* Without the guard getFrequencyData hands back new Uint8Array(0).
GetBassEnergyNoGuard(data) == BassPoll(IF analyser THEN data ELSE <<>>)

GetBassEnergy(data) == IF ~analyser THEN Unavailable("bass") ELSE BassPoll(data)

\* The loop bound of the mid sum: i < 30.
MidHi(data) == 30

MidOutNoClamp(mid) == mid

\* Math.min(historyRef.current.mid, 255)
MidOut(mid) == FMin(mid, Full * Scale)

GetMidEnergy(data) ==
    IF ~analyser THEN Unavailable("mid")
    ELSE LET count == Max2(0, MidHi(data) - 5)
             sum == SumBins(data, 5, MidHi(data))
             currentAvg == IF count > 0 THEN BandAvg(sum, count, gain) ELSE 0
             mid == FAdd(FScale(history.mid, 8, 10), FScale(currentAvg, 2, 10))
         IN  /\ history' = [history EXCEPT !.mid = mid]
             /\ ret' = [op |-> "mid", val |-> MidOut(mid),
                        hi |-> MidHi(data), len |-> Len(data)]
             /\ polls' = polls + 1
             /\ UNCHANGED <<analyser, maxVolume, gain, safeMaxUsed, gainCalls,
                            run, silent>>

\* The loop bound of the high sum: i < Math.min(data.length, 150).
HighHi(data) == Min2(Len(data), 150)

\* Math.min(highTransient * 4.0, 255)
HighOut(t) == FMin(FScale(t, 4, 1), Full * Scale)

GetHighEnergy(data) ==
    IF ~analyser THEN Unavailable("high")
    ELSE LET count == Max2(0, HighHi(data) - 50)
             sum == SumBins(data, 50, HighHi(data))
             currentAvg == IF count > 0
                           THEN FScale(BandAvg(sum, count, gain), 18, 10)
                           ELSE 0
             t == FMax(0, FSub(currentAvg, history.high))
         IN  /\ history' = [history EXCEPT !.high = currentAvg]
             /\ ret' = [op |-> "high", val |-> HighOut(t),
                        hi |-> HighHi(data), len |-> Len(data)]
             /\ polls' = polls + 1
             /\ UNCHANGED <<analyser, maxVolume, gain, safeMaxUsed, gainCalls,
                            run, silent>>

\* initAudio creates the context and the analyser once.
InitAudio ==
    /\ ~analyser
    /\ analyser' = TRUE
    /\ UNCHANGED <<maxVolume, gain, history, ret, safeMaxUsed, gainCalls, run,
                   polls, silent>>

\* --------------------------------------------------------------- detectBpm

\* Bass energies handed to detectBpm, and the time between two calls.
BassLevels == {0, 100 * Scale, 200 * Scale}
TimeSteps == {250, 300}

\* What performance.now() reads when the hook is created.
StartOffsets == {0, 50, 241, 242, 258, 259}

DecayedNoFloor(th) == (th * 95) \div 100

\* state.threshold *= 0.95, floored at minThreshold
Decayed(th) == Max2((th * 95) \div 100, minThreshold * Scale)

\* bassEnergy > state.threshold && bassEnergy > state.minThreshold
IsOnset(e, th) == e > th /\ e > minThreshold * Scale

\* now - state.lastBeatTime > 250
Debounced(t, last) == t - last > 250

\* Bass energies and times between two calls while the history fills up.
FifoLevels == {0, 200 * Scale}
FifoSteps == {300, 400}

PlausibleFrom300(i) == i >= 300 /\ i < 1000

\* interval > 300 && interval < 1000
Plausible(i) == i > 300 /\ i < 1000

PushNoShift(ivs, i) == Append(ivs, i)

PushDropsTwo(ivs, i) ==
    LET a == Append(ivs, i) IN IF Len(a) > 4 THEN Tail(Tail(a)) ELSE a

\* push, then shift once the history is longer than 8
Push(ivs, i) ==
    LET a == Append(ivs, i) IN IF Len(a) > 8 THEN Tail(a) ELSE a

\* intervals.reduce((a,b) => a+b, 0)
RECURSIVE SumSeq(_)
SumSeq(q) == IF q = <<>> THEN 0 ELSE Head(q) + SumSeq(Tail(q))

\* Math.round(a / b) for positive a, b: halves round up.
RoundDiv(a, b) == (2 * a + b) \div (2 * b)

EnoughFrom3(ivs) == Len(ivs) >= 3

\* state.intervals.length >= 4
Enough(ivs) == Len(ivs) >= 4

\* The return value: Math.round(60000 / avg) or null.
Estimate(ivs) ==
    IF Enough(ivs)
    THEN [null |-> FALSE, val |-> RoundDiv(60000 * Len(ivs), SumSeq(ivs))]
    ELSE NoBpm

\* beatRef.current after detectBpm(bassEnergy) reading the clock at t.
BeatAfter(e, t) ==
    LET th == Decayed(beat.threshold)
    IN  IF IsOnset(e, th)
        THEN LET interval == t - beat.lastBeatTime
                 accepted == Debounced(t, beat.lastBeatTime)
             IN  [lastBeatTime |-> IF accepted THEN t ELSE beat.lastBeatTime,
                  intervals |-> IF accepted /\ Plausible(interval)
                                THEN Push(beat.intervals, interval)
                                ELSE beat.intervals,
                  threshold |-> FScale(e, 11, 10)]
        ELSE [beat EXCEPT !.threshold = th]

\* The spike train after a call: a spike 500 ms after the last one extends it,
\* a spike at another distance ends it.
TrainAfter(e, t) ==
    IF ~train.ok THEN train
    ELSE IF ~IsOnset(e, Decayed(beat.threshold))
    THEN [train EXCEPT !.just = FALSE]
    ELSE IF train.n = 0
    THEN [n |-> 1, t0 |-> t, last |-> t, ok |-> TRUE, just |-> TRUE]
    ELSE IF t - train.last = 500
    THEN [train EXCEPT !.n = @ + 1, !.last = t, !.just = TRUE]
    ELSE [train EXCEPT !.ok = FALSE, !.just = FALSE]

\* detectBpm(bassEnergy), with performance.now() reading t.
DetectBpm(e, t) ==
    /\ now' = t
    /\ beat' = BeatAfter(e, t)
    /\ bpmRet' = Estimate(beat'.intervals)
    /\ train' = TrainAfter(e, t)
    /\ shifted' = IF Len(beat.intervals) = 8 /\ beat'.intervals # beat.intervals
                  THEN shifted + 1 ELSE shifted

\* ----------------------------------------------------------- audioSynth.ts

\* style: 'minimal' | 'hard'
Styles == {"minimal", "hard"}

\* What a caller that bypasses the type can pass as a style.
AnyStyles == Styles \cup {"acid"}

\* scheduleAheadTime = 0.1 s, lookahead = 25.0 ms, and the 0.05 s by which
\* play() puts the first note ahead of the audio clock, all in ms.
scheduleAheadTime == 100
lookahead == 25
PlayAhead == 50

\* Array(64): the pattern table, and the wrap of current16thNote.
PatternLen == 64

\* Outcomes of Math.random(), in thousandths.
RollUnit == 1000
RollSeq == <<0, 250, 650, 850, 990>>

\* Successive Math.random() outcomes, one per step index: all low, or a
\* mixed sequence.
Stream(a, b) ==
    [i \in 0..(PatternLen - 1) |-> RollSeq[((i * a + b) % Len(RollSeq)) + 1]]

\* The outcomes of the two Math.random() calls made per step index.
StreamPairs == {<<Stream(0, 0), Stream(3, 1)>>, <<Stream(3, 1), Stream(0, 0)>>}

\* The outcomes drawn for the tempo: the lowest and the highest.
TempoRolls == {0, 990}

\* Math.floor(Math.random() * n)
RandomIndex(r, n) == (r * n) \div RollUnit

\* 140 + Math.floor(Math.random() * 5)
HardTempo(r) == 140 + RandomIndex(r, 5)

\* 126 + Math.floor(Math.random() * 4)
MinimalTempo(r) == 126 + RandomIndex(r, 4)

\* One entry of generateMinimalPattern: baseFreq 55 times 1 or 1.5, or a rest.
MinimalEntry(i, u, v) ==
    LET stepInBar == i % 16
        probability == IF stepInBar % 4 = 2 THEN 600 ELSE 200
    IN  IF u[i] < probability
        THEN IF RandomIndex(v[i], 2) = 0
             THEN 55 * Scale
             ELSE FScale(55 * Scale, 15, 10)
        ELSE 0

HardEntryOffDownbeat(i, u, v) ==
    LET stepInBar == i % 16
    IN  IF stepInBar # 0 /\ u[i] < 800 THEN 45 * Scale
        ELSE IF stepInBar > 12 /\ v[i] < 300 THEN 45 * Scale * 2
        ELSE 0

\* One entry of generateHardPattern: root 45, its octave, or a rest.
HardEntry(i, u, v) ==
    LET stepInBar == i % 16
    IN  IF stepInBar % 4 # 0 /\ u[i] < 800 THEN 45 * Scale
        ELSE IF stepInBar > 12 /\ v[i] < 300 THEN 45 * Scale * 2
        ELSE 0

\* this.bassPattern = Array(64).fill(0).map(...)
GenerateMinimalPattern(u, v) ==
    [i \in 1..PatternLen |-> MinimalEntry(i - 1, u, v)]

HardPatternOver(old, u, v) ==
    [i \in 1..PatternLen |->
        IF i <= Len(old) /\ old[i] # 0 THEN old[i] ELSE HardEntry(i - 1, u, v)]

\* this.bassPattern = Array(64).fill(0).map(...): a new array, whatever the
\* table held before (old).
GenerateHardPattern(old, u, v) ==
    [i \in 1..PatternLen |-> HardEntry(i - 1, u, v)]

\* The sequencer together with the window's timers and the audio clock t it
\* runs on: what a TechnoSynth method reads and writes.  The other fields
\* record the calls made: the notes fired, the last operation (op) and the
\* one before it (prev), its style argument (arg), what it found (was: the
\* style before regenerate, the state of the timer stop() cleared), and
\* whether the current handler has called the sequencer at all (touched).
World ==
    [synth |-> synth, timers |-> timers, timerSeq |-> timerSeq,
     t |-> audioTime, fired |-> <<>>, op |-> synthOp.op, arg |-> synthOp.arg,
     was |-> synthOp.was, prev |-> synthOp.prev, stopped |-> stopped,
     calls |-> calls, touched |-> FALSE]

\* One more call of a method.
Called(w, op, arg, was) ==
    [w EXCEPT !.op = op, !.arg = arg, !.was = was, !.prev = w.op,
              !.calls = @ + 1, !.touched = TRUE]

\* regenerate(style)
Regenerate(w, style, r, u, v) ==
    LET s == w.synth
        st == IF style # "" THEN style ELSE s.style
        new == IF st = "hard"
               THEN [s EXCEPT !.style = st, !.tempo = HardTempo(r),
                     !.bassPattern = GenerateHardPattern(s.bassPattern, u, v)]
               ELSE [s EXCEPT !.style = st, !.tempo = MinimalTempo(r),
                     !.bassPattern = GenerateMinimalPattern(u, v)]
    IN  Called([w EXCEPT !.synth = new, !.fired = <<>>],
               "regenerate", style, s.style)

\* new TechnoSynth(ctx, style)
NewTechnoSynth(w, style, r, u, v) ==
    LET made == [w EXCEPT !.synth = [NoSynth EXCEPT !.made = TRUE,
                                                    !.style = style]]
    IN  [Regenerate(made, style, r, u, v) EXCEPT !.op = "new", !.was = "",
                                                 !.calls = w.calls]

NextNoteSkips(s) ==
    [s EXCEPT !.nextNoteTime = @ + ((15000 * Scale) \div s.tempo),
              !.current16thNote = (@ + 2) % PatternLen]

\* nextNote(): a sixteenth further, 0.25 * 60 / tempo seconds
NextNote(s) ==
    [s EXCEPT !.nextNoteTime = @ + ((15000 * Scale) \div s.tempo),
              !.current16thNote = (@ + 1) % PatternLen]

KickOnDownbeat(stepInBar) == stepInBar = 0

KickOnHalves(stepInBar) == stepInBar % 8 = 0

\* if (stepInBar % 4 === 0): the kick of the step
KickDue(stepInBar) == stepInBar % 4 = 0

KickVoices == {"kick", "rumbleKick"}

\* scheduleNote(stepIndex, time): the voices it plays, with the outcomes u
\* (hats) and v (percussion) of its Math.random() calls.
ScheduleNote(s, stepIndex, time, u, v) ==
    LET stepInBar == stepIndex % 16
        hard == s.style = "hard"
        kick == IF KickDue(stepInBar)
                THEN {IF hard THEN "rumbleKick" ELSE "kick"}
                ELSE {}
        hats == IF hard
                THEN (IF stepInBar % 4 = 2 THEN {"openHat"} ELSE {})
                     \cup (IF stepInBar % 2 # 0 THEN {"closedHat"} ELSE {})
                     \cup (IF stepInBar % 4 = 0 /\ u[stepIndex] > 500
                           THEN {"ride"} ELSE {})
                ELSE IF stepInBar % 4 = 2 THEN {"openHat"}
                     ELSE IF u[stepIndex] > 700 THEN {"closedHat"} ELSE {}
        bass == IF s.bassPattern[stepIndex + 1] > 0 THEN {"bass"} ELSE {}
        perc == IF hard
                THEN (IF v[stepIndex] > 970 THEN {"industrialPerc"} ELSE {})
                ELSE (IF v[stepIndex] > 950 THEN {"click"} ELSE {})
    IN  [step |-> stepIndex, time |-> time, hard |-> hard,
         voices |-> kick \cup hats \cup bass \cup perc]

RECURSIVE LookaheadShort(_, _, _, _, _)
LookaheadShort(s, t, u, v, notes) ==
    IF s.nextNoteTime < (t + 10) * Scale
    THEN LookaheadShort(NextNote(s), t, u, v,
                        Append(notes, ScheduleNote(s, s.current16thNote,
                                                   s.nextNoteTime, u, v)))
    ELSE [synth |-> s, fired |-> notes]

\* while (nextNoteTime < currentTime + scheduleAheadTime) { scheduleNote;
\* nextNote }, with ctx.currentTime reading t
RECURSIVE Lookahead(_, _, _, _, _)
Lookahead(s, t, u, v, notes) ==
    IF s.nextNoteTime < (t + scheduleAheadTime) * Scale
    THEN Lookahead(NextNote(s), t, u, v,
                   Append(notes, ScheduleNote(s, s.current16thNote,
                                              s.nextNoteTime, u, v)))
    ELSE [synth |-> s, fired |-> notes]

\* scheduler(): the look-ahead loop, then the next timer while playing
Scheduler(w, u, v) ==
    LET r == Lookahead(w.synth, w.t, u, v, <<>>)
        id == w.timerSeq + 1
    IN  IF r.synth.isPlaying
        THEN [w EXCEPT !.synth = [r.synth EXCEPT !.timerID = id],
                       !.timers = @ \cup {[id |-> id, due |-> w.t + lookahead]},
                       !.timerSeq = id,
                       !.fired = w.fired \o r.fired]
        ELSE [w EXCEPT !.synth = r.synth, !.fired = w.fired \o r.fired]

PlayNoGuard(w, u, v) ==
    Called(Scheduler([w EXCEPT !.synth.isPlaying = TRUE,
                               !.synth.current16thNote = 0,
                               !.synth.nextNoteTime = (w.t + PlayAhead) * Scale,
                               !.fired = <<>>, !.stopped = FALSE],
                     u, v),
           "play", "", IF w.synth.isPlaying THEN "playing" ELSE "idle")

\* play()
Play(w, u, v) ==
    IF w.synth.isPlaying
    THEN Called([w EXCEPT !.fired = <<>>, !.stopped = FALSE],
                "play", "", "playing")
    ELSE PlayNoGuard(w, u, v)

\* The timer stop() would clear: none, one not yet due, or one that is due
\* and whose callback has not run yet.
Pending(w) ==
    LET mine == {tm \in w.timers : tm.id = w.synth.timerID}
    IN  IF mine = {} THEN "none"
        ELSE IF \E tm \in mine : tm.due <= w.t THEN "due"
        ELSE "ahead"

StopAndStep(w) ==
    Called([w EXCEPT !.synth = [NextNote(@) EXCEPT !.isPlaying = FALSE],
                     !.timers = {tm \in @ : tm.id # w.synth.timerID},
                     !.fired = <<>>, !.stopped = TRUE],
           "stop", "", Pending(w))

StopNoClear(w) ==
    Called([w EXCEPT !.synth.isPlaying = FALSE,
                     !.fired = <<>>, !.stopped = TRUE],
           "stop", "", Pending(w))

\* stop()
Stop(w) ==
    Called([w EXCEPT !.synth.isPlaying = FALSE,
                     !.timers = IF w.synth.timerID # 0
                                THEN {tm \in @ : tm.id # w.synth.timerID}
                                ELSE @,
                     !.fired = <<>>, !.stopped = TRUE],
           "stop", "", Pending(w))

\* The steps fired in a row in the current bar after one more note: a note
\* on bar position 0 starts a bar, the next position extends it.
BarWith(b, note) ==
    LET pos == note.step % 16
        kicks == IF note.voices \cap KickVoices # {} THEN {pos} ELSE {}
    IN  IF pos = 0
        THEN [k |-> note.step \div 16, n |-> 1, kicks |-> kicks,
              hard |-> note.hard]
        ELSE IF b.n = pos /\ b.k = note.step \div 16
        THEN [b EXCEPT !.n = @ + 1, !.kicks = @ \cup kicks,
                       !.hard = @ /\ note.hard]
        ELSE [b EXCEPT !.n = 0]

RECURSIVE BarAfter(_, _)
BarAfter(b, notes) ==
    IF notes = <<>> THEN b ELSE BarAfter(BarWith(b, Head(notes)), Tail(notes))

\* The sequencer and the window after the calls a handler made.
Apply(w) ==
    IF w.touched
    THEN /\ synth' = w.synth
         /\ timers' = w.timers
         /\ timerSeq' = w.timerSeq
         /\ fired' = w.fired
         /\ synthOp' = [op |-> w.op, arg |-> w.arg, was |-> w.was,
                        prev |-> w.prev]
         /\ stopped' = w.stopped
         /\ bar' = BarAfter(bar, w.fired)
         /\ calls' = w.calls
    ELSE UNCHANGED <<synth, timers, timerSeq, fired, synthOp, stopped, bar,
                     calls>>

\* A caller constructs the sequencer.
Construct(style) ==
    /\ ~synth.made
    /\ \E r \in TempoRolls, uv \in StreamPairs :
          Apply(NewTechnoSynth(World, style, r, uv[1], uv[2]))
    /\ UNCHANGED audioTime

\* A caller calls play().
CallPlay ==
    /\ synth.made
    /\ \E uv \in StreamPairs : Apply(Play(World, uv[1], uv[2]))
    /\ UNCHANGED audioTime

\* A caller calls stop().
CallStop ==
    /\ synth.made
    /\ Apply(Stop(World))
    /\ UNCHANGED audioTime

\* A caller calls regenerate(style).
CallRegenerate(style) ==
    /\ synth.made
    /\ \E r \in TempoRolls, uv \in StreamPairs :
          Apply(Regenerate(World, style, r, uv[1], uv[2]))
    /\ UNCHANGED audioTime

\* A pending timer of scheduler() comes due and its callback runs.
TimerFires ==
    \E tm \in timers :
        /\ tm.due <= audioTime
        /\ \E uv \in StreamPairs :
              Apply([Scheduler([World EXCEPT !.timers = @ \ {tm}],
                               uv[1], uv[2])
                     EXCEPT !.op = "scheduler", !.arg = "", !.was = "",
                            !.prev = synthOp.op, !.touched = TRUE])
        /\ UNCHANGED audioTime

\* The audio clock runs on to the moment the next callback or handler runs;
\* a timer that is due has its callback queued by then.
Advance(dt) ==
    /\ \A tm \in timers : audioTime < tm.due
    /\ audioTime' = audioTime + dt
    /\ UNCHANGED <<synth, timers, timerSeq, fired, synthOp, stopped, bar,
                   calls>>

\* ---------------------------------------------------------------- App.tsx

\* The time between two animation frames.
TickSteps == {250}

\* What a step of the loop callback adds to the log: the gain adaptation, if
\* updateAutoGain ran in it, then the band it extracted.
Logged(band, extracted) ==
    (IF gainCalls' # gainCalls THEN <<"gain">> ELSE <<>>)
        \o (IF extracted THEN <<band>> ELSE <<>>)

\* const bass = features.bass ? getBassEnergy() : 0
LoopBass(data) ==
    /\ loopPc = "idle"
    /\ isPlaying /\ analyser
    /\ IF features.bass THEN GetBassEnergy(data) ELSE UNCHANGED hookVars
    /\ tick' = [frame |-> data, high |-> 0,
                bass |-> IF features.bass THEN ret'.val ELSE 0]
    /\ tickLog' = Logged("bass", features.bass)
    /\ loopPc' = "high"
    /\ UNCHANGED <<beatVars, isPlaying, mode, features, audioSrc, bpm,
                   lastBpmUpdate, energyState, ticks>>
    /\ UNCHANGED <<synthVars, routeVars>>

\* const high = features.high ? getHighEnergy() : 0
LoopHigh ==
    /\ loopPc = "high"
    /\ IF features.high THEN GetHighEnergy(tick.frame) ELSE UNCHANGED hookVars
    /\ tick' = [tick EXCEPT !.high = IF features.high THEN ret'.val ELSE 0]
    /\ tickLog' = tickLog \o Logged("high", features.high)
    /\ loopPc' = "mid"
    /\ UNCHANGED <<beatVars, isPlaying, mode, features, audioSrc, bpm,
                   lastBpmUpdate, energyState, ticks>>
    /\ UNCHANGED <<synthVars, routeVars>>

\* bass * 0.5 + mid * 0.3 + high * 0.2
Total(b, m, h) ==
    FAdd(FAdd(FScale(b, 5, 10), FScale(m, 3, 10)), FScale(h, 2, 10))

\* const mid = getMidEnergy(), then the four energyState assignments
LoopMid ==
    /\ loopPc = "mid"
    /\ GetMidEnergy(tick.frame)
    /\ energyState' = [bass |-> tick.bass, mid |-> ret'.val, high |-> tick.high,
                       total |-> Total(tick.bass, ret'.val, tick.high)]
    /\ tickLog' = tickLog \o Logged("mid", TRUE)
    /\ loopPc' = "bpm"
    /\ UNCHANGED <<beatVars, isPlaying, mode, features, audioSrc, bpm,
                   lastBpmUpdate, tick, ticks>>
    /\ UNCHANGED <<synthVars, routeVars>>

BpmAfterAlways(prev, detected) == detected

\* setBpm(prev => Math.abs(prev - detectedBpm) > 5 ? detectedBpm : prev)
BpmAfter(prev, detected) == IF Abs(prev - detected) > 5 THEN detected ELSE prev

\* if (mode !== 'synth') { detectBpm(bass); ... }, with the clock reading t
LoopBpm(t) ==
    /\ loopPc = "bpm"
    /\ IF mode # "synth"
       THEN /\ DetectBpm(tick.bass, t)
            /\ IF ~bpmRet'.null /\ bpmRet'.val # 0 /\ t - lastBpmUpdate > 1000
               THEN /\ bpm' = BpmAfter(bpm, bpmRet'.val)
                    /\ lastBpmUpdate' = t
               ELSE UNCHANGED <<bpm, lastBpmUpdate>>
       ELSE UNCHANGED <<beatVars, bpm, lastBpmUpdate>>
    /\ loopPc' = "idle"
    /\ ticks' = ticks + 1
    /\ UNCHANGED <<hookVars, isPlaying, mode, features, audioSrc, energyState,
                   tick, tickLog>>
    /\ UNCHANGED <<synthVars, routeVars>>

\* THREE.MathUtils.lerp(x, 0, 0.1)
LerpToZero(x) == FScale(x, 9, 10)

\* The else branch of the loop: nothing is extracted, the energies fade.
LoopFade ==
    /\ loopPc = "idle"
    /\ ~(isPlaying /\ analyser)
    /\ energyState' = [bass |-> LerpToZero(energyState.bass),
                       mid |-> LerpToZero(energyState.mid),
                       high |-> LerpToZero(energyState.high),
                       total |-> LerpToZero(energyState.total)]
    /\ tickLog' = <<>>
    /\ ticks' = ticks + 1
    /\ UNCHANGED <<hookVars, beatVars, isPlaying, mode, features, audioSrc,
                   bpm, lastBpmUpdate, loopPc, tick>>
    /\ UNCHANGED <<synthVars, routeVars>>

\* toggleFeature(f)
ToggleFeature(f) ==
    /\ loopPc = "idle"
    /\ features' = [features EXCEPT ![f] = ~@]
    /\ UNCHANGED <<hookVars, beatVars, isPlaying, mode, audioSrc, bpm,
                   lastBpmUpdate, energyState, loopPc, tick, tickLog, ticks>>
    /\ UNCHANGED <<synthVars, routeVars>>

\* The analyser's input: the node sourceRef names and the nodes connected.
Route == [sourceRef |-> sourceRef, connected |-> connected]

SetRoute(rt) == sourceRef' = rt.sourceRef /\ connected' = rt.connected

\* disconnectCurrentSource(): disconnect the node sourceRef names, if any
DisconnectCurrentSource(rt) ==
    IF rt.sourceRef # "none"
    THEN [sourceRef |-> "none", connected |-> rt.connected \ {rt.sourceRef}]
    ELSE rt

\* connectSource(audioElement) and connectAudioNode(node), with the context
\* and the analyser present: the old source goes, the node is connected and
\* recorded.
ConnectNode(rt, node) ==
    [sourceRef |-> node,
     connected |-> DisconnectCurrentSource(rt).connected \cup {node}]

\* stopAll(): audio.pause(), synthRef.current?.stop(), setIsPlaying(false)
StopAll(w) == IF w.synth.made THEN Stop(w) ELSE w

\* handleFileChange(file): stopAll(), then the new file becomes the source.
HandleFileChange ==
    /\ loopPc = "idle"
    /\ Apply(StopAll(World))
    /\ isPlaying' = FALSE
    /\ mode' = "file"
    /\ audioSrc' = TRUE
    /\ bpm' = 120
    /\ UNCHANGED <<hookVars, beatVars, features, lastBpmUpdate, energyState,
                   loopPc, tick, tickLog, ticks, audioTime, routeVars>>

\* The synth branch of togglePlay with the sequencer not playing: it is made
\* and connected if there is none and the render that made this handler saw
\* an audio context, regenerated if its style is not synthStyle, and started.
SynthStarted(w, ctxSeen, style, r, u, v) ==
    LET create == ~w.synth.made /\ ctxSeen
        w1 == IF create THEN NewTechnoSynth(w, style, r, u, v) ELSE w
        regen == w1.synth.made /\ w1.synth.style # style
        w2 == IF regen THEN Regenerate(w1, style, r, u, v) ELSE w1
    IN  [world |-> IF w2.synth.made THEN Play(w2, u, v) ELSE w2,
         create |-> create,
         newTempo |-> create \/ regen,
         tempo |-> w2.synth.tempo]

\* togglePlay(); on a file, audio.play() resolves (ok) or rejects; r and uv
\* are the outcomes of Math.random() if the sequencer is made or regenerated.
TogglePlay(ok, r, uv) ==
    /\ loopPc = "idle"
    /\ analyser' = TRUE
    /\ IF mode = "synth"
       THEN IF isPlaying
            THEN /\ Apply(StopAll(World))
                 /\ isPlaying' = FALSE
                 /\ UNCHANGED <<bpm, sourceRef, connected>>
            ELSE LET st == SynthStarted(World, analyser, synthStyle, r,
                                        uv[1], uv[2])
                 IN  /\ Apply(st.world)
                     /\ SetRoute(IF st.create
                                 THEN ConnectNode(Route, "synth")
                                 ELSE Route)
                     /\ bpm' = IF st.newTempo THEN st.tempo ELSE bpm
                     /\ isPlaying' = TRUE
       ELSE /\ isPlaying' = IF mode = "system" THEN ~isPlaying
                            ELSE IF ~audioSrc THEN isPlaying
                            ELSE IF isPlaying THEN FALSE
                            ELSE ok
            /\ SetRoute(IF mode = "file" /\ audioSrc /\ ~isPlaying
                        THEN ConnectNode(Route, "file")
                        ELSE Route)
            /\ UNCHANGED <<synth, timers, timerSeq, fired, synthOp, stopped,
                           bar, calls, bpm>>
    /\ UNCHANGED <<maxVolume, gain, history, observed, beatVars, mode, features,
                   audioSrc, lastBpmUpdate, energyState, loopPc, tick, tickLog,
                   ticks, audioTime, synthStyle, genTimers, sysPending,
                   streamLive>>

\* setSynthStyle(s)
SetSynthStyle(s) ==
    /\ loopPc = "idle"
    /\ synthStyle # s
    /\ synthStyle' = s
    /\ UNCHANGED <<hookVars, beatVars, appVars, synthVars, sourceRef,
                   connected, genTimers, sysPending, streamLive>>

\* handleGenerate(): initAudio, stopAll(), mode synth, and the 50 ms timeout,
\* whose callback keeps the audioContext and synthStyle of the render that
\* made this handler.
HandleGenerate ==
    /\ loopPc = "idle"
    /\ analyser' = TRUE
    /\ Apply(StopAll(World))
    /\ isPlaying' = FALSE
    /\ mode' = "synth"
    /\ genTimers' = Append(genTimers, [ctx |-> analyser, style |-> synthStyle])
    /\ UNCHANGED <<maxVolume, gain, history, observed, beatVars, features,
                   audioSrc, bpm, lastBpmUpdate, energyState, loopPc, tick,
                   tickLog, ticks, audioTime, synthStyle, sourceRef, connected,
                   sysPending, streamLive>>

\* The callback of handleGenerate's timeout; r and uv are the outcomes of
\* Math.random().
GenerateTimeout(r, uv) ==
    /\ loopPc = "idle"
    /\ genTimers # <<>>
    /\ genTimers' = Tail(genTimers)
    /\ LET cb == Head(genTimers)
       IN  IF ~cb.ctx
           THEN UNCHANGED <<synth, timers, timerSeq, fired, synthOp, stopped,
                            bar, calls, sourceRef, connected, bpm, isPlaying>>
           ELSE LET w1 == IF ~synth.made
                          THEN NewTechnoSynth(World, cb.style, r, uv[1], uv[2])
                          ELSE Regenerate(World, cb.style, r, uv[1], uv[2])
                    w2 == IF ~w1.synth.isPlaying
                          THEN Play(w1, uv[1], uv[2])
                          ELSE w1
                IN  /\ Apply(w2)
                    /\ SetRoute(IF ~synth.made
                                THEN ConnectNode(Route, "synth")
                                ELSE Route)
                    /\ bpm' = w1.synth.tempo
                    /\ isPlaying' = TRUE
    /\ UNCHANGED <<hookVars, beatVars, mode, features, audioSrc, lastBpmUpdate,
                   energyState, loopPc, tick, tickLog, ticks, audioTime,
                   synthStyle, sysPending, streamLive>>

\* handleSystemAudio(type) up to its await: initAudio, stopAll(), mode
\* system, bpm 128, and connectMicrophone / connectSystemAudio up to theirs,
\* which disconnect the current source and ask for the stream.
HandleSystemAudio ==
    /\ loopPc = "idle"
    /\ analyser' = TRUE
    /\ Apply(StopAll(World))
    /\ isPlaying' = FALSE
    /\ mode' = "system"
    /\ bpm' = 128
    /\ SetRoute(DisconnectCurrentSource(Route))
    /\ sysPending' = sysPending + 1
    /\ UNCHANGED <<maxVolume, gain, history, observed, beatVars, features,
                   audioSrc, lastBpmUpdate, energyState, loopPc, tick, tickLog,
                   ticks, audioTime, synthStyle, genTimers, streamLive>>

\* The rest of handleSystemAudio: the stream arrived and is connected
\* (success), or it was refused and the mode falls back to file.
SystemAudioSettled(success) ==
    /\ loopPc = "idle"
    /\ sysPending > 0
    /\ sysPending' = sysPending - 1
    /\ IF success
       THEN /\ sourceRef' = "stream"
            /\ connected' = connected \cup {"stream"}
            /\ streamLive' = TRUE
            /\ isPlaying' = TRUE
            /\ UNCHANGED mode
       ELSE /\ mode' = "file"
            /\ UNCHANGED <<sourceRef, connected, streamLive, isPlaying>>
    /\ UNCHANGED <<hookVars, beatVars, features, audioSrc, bpm, lastBpmUpdate,
                   energyState, loopPc, tick, tickLog, ticks, synthVars,
                   synthStyle, genTimers>>

\* The onended handler of a captured stream: disconnectCurrentSource().
StreamEnded ==
    /\ loopPc = "idle"
    /\ streamLive
    /\ streamLive' = FALSE
    /\ SetRoute(DisconnectCurrentSource(Route))
    /\ UNCHANGED <<hookVars, beatVars, appVars, synthVars, synthStyle,
                   genTimers, sysPending>>

\* ---------------------------------------------------------- specifications

\* The hook driven by any caller: a bounded number of polls on any frames.
Next ==
    \/ InitAudio /\ UNCHANGED <<beatVars, appVars, synthVars, routeVars>>
    \/ \E f \in Frames :
          polls + silent < MaxPolls /\ GetBassEnergy(f) /\ UNCHANGED <<beatVars, appVars, synthVars, routeVars>>
    \/ \E f \in Frames :
          polls + silent < MaxPolls /\ GetMidEnergy(f) /\ UNCHANGED <<beatVars, appVars, synthVars, routeVars>>
    \/ \E f \in Frames :
          polls + silent < MaxPolls /\ GetHighEnergy(f) /\ UNCHANGED <<beatVars, appVars, synthVars, routeVars>>

Spec == Init /\ [][Next]_vars

\* A long run of all-zero frames polled through getBassEnergy, then a few polls
\* on any frames.
NextSilence ==
    \/ InitAudio /\ UNCHANGED <<beatVars, appVars, synthVars, routeVars>>
    \/ /\ polls = 0 /\ silent < MaxSilent
       /\ GetBassEnergy(Silent) /\ UNCHANGED <<beatVars, appVars, synthVars, routeVars>>
    \/ \E f \in Frames :
          /\ polls < MaxAfter
          /\ f # Silent \/ polls > 0 \/ ~analyser
          /\ GetBassEnergy(f) /\ UNCHANGED <<beatVars, appVars, synthVars, routeVars>>
    \/ \E f \in Frames :
          polls < MaxAfter /\ GetMidEnergy(f) /\ UNCHANGED <<beatVars, appVars, synthVars, routeVars>>
    \/ \E f \in Frames :
          polls < MaxAfter /\ GetHighEnergy(f) /\ UNCHANGED <<beatVars, appVars, synthVars, routeVars>>

SpecSilence == Init /\ [][NextSilence]_vars

\* The extractors on frames of any length.
NextAnyLen ==
    \/ InitAudio /\ UNCHANGED <<beatVars, appVars, synthVars, routeVars>>
    \/ \E f \in AnyLenFrames :
          polls + silent < MaxShort /\ GetBassEnergy(f) /\ UNCHANGED <<beatVars, appVars, synthVars, routeVars>>
    \/ \E f \in AnyLenFrames :
          polls + silent < MaxShort /\ GetMidEnergy(f) /\ UNCHANGED <<beatVars, appVars, synthVars, routeVars>>
    \/ \E f \in AnyLenFrames :
          polls + silent < MaxShort /\ GetHighEnergy(f) /\ UNCHANGED <<beatVars, appVars, synthVars, routeVars>>

SpecAnyLen == Init /\ [][NextAnyLen]_vars

\* The tempo estimator called with any bass energy, the clock running on
\* between two calls.
NextBeat ==
    \E e \in BassLevels, dt \in TimeSteps :
        /\ now + dt <= MaxTime
        /\ DetectBpm(e, now + dt)
        /\ UNCHANGED <<hookVars, appVars, synthVars, routeVars>>

InitBeat == now \in StartOffsets /\ Fresh

\* The tempo estimator called on a beat until its history overflows.
NextFifo ==
    \E e \in FifoLevels, dt \in FifoSteps :
        /\ now + dt <= MaxFifoTime
        /\ DetectBpm(e, now + dt)
        /\ UNCHANGED <<hookVars, appVars, synthVars, routeVars>>

SpecFifo == Init /\ [][NextFifo]_vars

SpecBeat == InitBeat /\ [][NextBeat]_vars

\* The application: the user's handlers and the animation-frame loop, which
\* polls the analyser's current frame.
NextApp ==
    \/ \E ok \in BOOLEAN, r \in TempoRolls, uv \in StreamPairs :
          TogglePlay(ok, r, uv)
    \/ HandleFileChange
    \/ \E f \in {"bass", "high"} : ToggleFeature(f)
    \/ \E data \in Frames : ticks < MaxTicks /\ LoopBass(data)
    \/ LoopHigh
    \/ LoopMid
    \/ \E dt \in TickSteps : LoopBpm(now + dt)
    \/ ticks < MaxTicks /\ LoopFade

SpecApp == Init /\ [][NextApp]_vars

\* The sequencer driven by any caller: construction, then play(), stop() and
\* regenerate() at any moment, the scheduler's timers coming due as the audio
\* clock runs on.
AudioSteps == {25, 75}

NextSynth ==
    \/ \E s \in AnyStyles :
          Construct(s) /\ UNCHANGED <<hookVars, beatVars, appVars, routeVars>>
    \/ /\ calls < MaxCalls
       /\ CallPlay
       /\ UNCHANGED <<hookVars, beatVars, appVars, routeVars>>
    \/ /\ calls < MaxCalls
       /\ CallStop
       /\ UNCHANGED <<hookVars, beatVars, appVars, routeVars>>
    \/ \E s \in AnyStyles :
          /\ calls < MaxCalls
          /\ CallRegenerate(s)
          /\ UNCHANGED <<hookVars, beatVars, appVars, routeVars>>
    \/ TimerFires /\ UNCHANGED <<hookVars, beatVars, appVars, routeVars>>
    \/ \E dt \in AudioSteps :
          /\ audioTime + dt <= MaxAudio
          /\ Advance(dt)
          /\ UNCHANGED <<hookVars, beatVars, appVars, routeVars>>

SpecSynth == Init /\ [][NextSynth]_vars

\* The sequencer constructed, started once and left running for more than
\* the 64 steps of its pattern, its timer callbacks on time or late.
BarSteps == {100, 400}

NextBar ==
    \/ \E s \in Styles :
          Construct(s) /\ UNCHANGED <<hookVars, beatVars, appVars, routeVars>>
    \/ /\ audioTime <= MaxStart
       /\ ~synth.isPlaying
       /\ CallPlay
       /\ UNCHANGED <<hookVars, beatVars, appVars, routeVars>>
    \/ TimerFires /\ UNCHANGED <<hookVars, beatVars, appVars, routeVars>>
    \/ \E dt \in BarSteps :
          /\ audioTime + dt <= MaxBarTime
          /\ Advance(dt)
          /\ UNCHANGED <<hookVars, beatVars, appVars, routeVars>>

SpecBar == Init /\ [][NextBar]_vars

\* The application's source handlers in any order, with the callbacks they
\* leave pending, and the sequencer's timers.
SourceSteps == {100}

\* The Math.random() outcomes of the sequencers the handlers make.
SourceRolls == {0}
SourcePairs == {<<Stream(3, 1), Stream(0, 0)>>}

NextSource ==
    \/ \E ok \in BOOLEAN, r \in SourceRolls, uv \in SourcePairs :
          calls < MaxSourceCalls /\ TogglePlay(ok, r, uv)
    \/ calls < MaxSourceCalls /\ HandleFileChange
    \/ /\ calls < MaxSourceCalls
       /\ Len(genTimers) < MaxPending
       /\ HandleGenerate
    \/ \E r \in SourceRolls, uv \in SourcePairs : GenerateTimeout(r, uv)
    \/ /\ calls < MaxSourceCalls
       /\ sysPending < MaxPending
       /\ HandleSystemAudio
    \/ \E success \in BOOLEAN : SystemAudioSettled(success)
    \/ StreamEnded
    \/ \E s \in Styles : SetSynthStyle(s)
    \/ TimerFires /\ UNCHANGED <<hookVars, beatVars, appVars, routeVars>>
    \/ \E dt \in SourceSteps :
          /\ audioTime + dt <= MaxAudio
          /\ Advance(dt)
          /\ UNCHANGED <<hookVars, beatVars, appVars, routeVars>>

SpecSource == Init /\ [][NextSource]_vars

\* A source is chosen and started, a file or system audio, and the analysis
\* loop then polls it: frames with and without a kick, a frame every 250 ms.
BeatFrames == {Silent, Kick}

\* What performance.now() reads when the page is loaded.
TempoOffsets == {0, 20}

NextTempo ==
    \/ ticks = 0 /\ HandleFileChange
    \/ \E ok \in BOOLEAN, r \in SourceRolls, uv \in SourcePairs :
          ticks = 0 /\ TogglePlay(ok, r, uv)
    \/ ticks = 0 /\ sysPending < MaxPending /\ HandleSystemAudio
    \/ \E success \in BOOLEAN : SystemAudioSettled(success)
    \/ \E data \in BeatFrames : ticks < MaxBeatTicks /\ LoopBass(data)
    \/ LoopHigh
    \/ LoopMid
    \/ \E dt \in TickSteps : LoopBpm(now + dt)
    \/ ticks < MaxBeatTicks /\ LoopFade

InitTempo == now \in TempoOffsets /\ Fresh

SpecTempo == InitTempo /\ [][NextTempo]_vars

\* The frame of a steady beat, a kick in every second callback.
SteadyBeat == IF ticks % 2 = 1 THEN Kick ELSE Silent

\* A file with a steady beat is chosen and played from the start; once
\* detectBpm has returned an estimate the user stops, changes the source and
\* resumes in any order, while the loop goes on polling frames of any kind,
\* with and without a kick.
NextKeep ==
    \/ (ticks = 0 \/ ~bpmRet.null) /\ HandleFileChange
    \/ \E ok \in BOOLEAN, r \in SourceRolls, uv \in SourcePairs :
          (ticks = 0 \/ ~bpmRet.null) /\ TogglePlay(ok, r, uv)
    \/ ~bpmRet.null /\ sysPending < MaxPending /\ HandleSystemAudio
    \/ \E success \in BOOLEAN : SystemAudioSettled(success)
    \/ \E data \in BeatFrames :
          /\ ticks < MaxKeepTicks
          /\ bpmRet.null => data = SteadyBeat
          /\ LoopBass(data)
    \/ LoopHigh
    \/ LoopMid
    \/ \E dt \in TickSteps : LoopBpm(now + dt)
    \/ ticks < MaxKeepTicks /\ LoopFade

SpecKeep == Init /\ [][NextKeep]_vars

\* ------------------------------------------------------------------ claims

InRange(x) == x # NaN /\ 0 <= x /\ x <= Full * Scale

\* The last detectBpm call carried the 4th spike of a 500 ms spike train.
FourthSpike == train.ok /\ train.n = 4 /\ train.just

\* C1: every value getBassEnergy returns lies in [0,255], also when a loud
\* frame follows quieter ones and the smoothed gain is still above 1.
C1_BassInRange == ret.op = "bass" => InRange(ret.val)

\* C2: every value getMidEnergy and getHighEnergy return lies in [0,255],
\* whatever the gain and the band history.
C2_MidHighInRange == ret.op \in {"mid", "high"} => InRange(ret.val)

\* The clamp of the mid output was needed: the smoothed mid is above 255.
C2_MidClamped ==
    ret.op = "mid" /\ history.mid > Full * Scale /\ ret.val = Full * Scale

\* C3: after any number of updateAutoGain calls, also on all-zero frames
\* only, currentGain is strictly positive and at most 255/50.
C3_GainPositiveBounded ==
    gain > 0 /\ gain * FloorMax <= Full * Scale

\* Silence long enough for the envelope to sink under the floor, with the gain
\* close to its ceiling 255/50.
C3_LongSilence ==
    /\ gainCalls >= 150
    /\ maxVolume < FloorMax * Scale
    /\ gain * FloorMax > 250 * Scale

\* C4 as claimed: the stored peak envelope maxVolumeRef is never below 50.
C4_StoredPeakAtLeastFloor == maxVolume >= FloorMax * Scale

\* C4 as amended: the envelope value the gain is computed from (safeMax) is
\* never below 50 in any updateAutoGain call; the stored maxVolumeRef is not
\* floored.
C4_SafeMaxAtLeastFloor == gainCalls > 0 => safeMaxUsed >= FloorMax * Scale

\* The stored envelope is under the floor and the floor was used instead.
C4_FloorUsed ==
    maxVolume < FloorMax * Scale /\ safeMaxUsed = FloorMax * Scale

\* C5: in every tick of the analysis loop that extracts band energies,
\* updateAutoGain runs exactly once and before any band energy of the tick is
\* computed, whatever the bass/high feature toggles are.
C5_GainOnceBeforeBands ==
    tickLog # <<>> =>
        /\ tickLog[1] = "gain"
        /\ Cardinality({i \in DOMAIN tickLog : tickLog[i] = "gain"}) = 1

\* C6: with the analyser unavailable a call of getBassEnergy, getMidEnergy or
\* getHighEnergy returns 0 and leaves the gain state and band history as
\* they were.
C6_UnavailableReturnsZero ==
    [][(~analyser /\ ret' # ret)
          => (ret'.val = 0 /\ UNCHANGED <<maxVolume, gain, history>>)]_vars

\* All three extractors have been called before initAudio, the last one high.
C6_CalledUnavailable == ~analyser /\ ret.op = "high" /\ ret.val = 0

C8_NoNewTransient == run.len \in 2..5 => run.last <= run.first

\* C8 as amended: the same for a run started from the initial gain state
\* and bass history.
C8_NoNewTransientFromInitial ==
    (run.fresh /\ run.len \in 2..5) => run.last <= run.first

\* Five polls from the initial state, the fifth with a transient of its own.
C8_FivePolls == run.fresh /\ run.len = 5 /\ run.last > 0

\* C9 as claimed: from a new BeatState, with a spike every 500 ms and
\* low-energy calls in between, the call carrying the 4th spike returns 120,
\* whatever the timestamp of the first spike.
C9_FourthSpikeGives120 == FourthSpike => (~bpmRet.null /\ bpmRet.val = 120)

\* C9 as amended: with the first spike at t0, the call carrying the 4th
\* spike returns null unless 300 < t0 < 1000; then t0 itself is stored as the
\* first interval and the result is 240000 / (1500 + t0) rounded, which is 120
\* only for t0 from 492 to 508.
C9_FourthSpikeByFirstTimestamp ==
    FourthSpike =>
        IF 300 < train.t0 /\ train.t0 < 1000
        THEN /\ ~bpmRet.null
             /\ 2 * Abs(240000 - bpmRet.val * (1500 + train.t0))
                    <= 1500 + train.t0
             /\ bpmRet.val = 120 <=> (492 <= train.t0 /\ train.t0 <= 508)
        ELSE bpmRet.null

\* The 4th spike of a train whose first spike came at 492..508 ms.
C9_FourthSpikeNear500 ==
    FourthSpike /\ train.t0 # 500 /\ ~bpmRet.null /\ bpmRet.val = 120

\* C10: detectBpm returns null exactly when fewer than 4 intervals are
\* stored after the call's update, and otherwise the integer nearest to
\* 60000 / mean(intervals).
C10_NullBelowFourElseRoundedMean ==
    LET n == Len(beat.intervals)
        sum == SumSeq(beat.intervals)
    IN  /\ bpmRet.null <=> n < 4
        /\ ~bpmRet.null => 2 * Abs(60000 * n - bpmRet.val * sum) <= sum

\* An estimate over unequal intervals whose quotient is no integer.
C10_RoundedEstimate ==
    /\ ~bpmRet.null
    /\ \E i, j \in 1..Len(beat.intervals) : beat.intervals[i] # beat.intervals[j]
    /\ (60000 * Len(beat.intervals)) % SumSeq(beat.intervals) # 0

\* The step is a call of the sequencer's method op.
SynthCall(op) == calls' # calls /\ synthOp'.op = op

\* C11: the sequencer has exactly two states: play() from Idle enters
\* Scheduling and the first step fired is step 0 with timestamp
\* currentTime + 0.05; stop() from Scheduling enters Idle; play() while
\* already Scheduling changes nothing (no reset of stepIndex or nextEventTime,
\* no additional scheduler chain: one pending timer while Scheduling, none
\* while Idle).
C11_PlayStopTwoStates ==
    [][/\ (SynthCall("play") /\ ~synth.isPlaying) =>
              /\ synth'.isPlaying
              /\ fired' # <<>>
              /\ fired'[1].step = 0
              /\ fired'[1].time = (audioTime + 50) * Scale
       /\ (SynthCall("stop") /\ synth.isPlaying) => ~synth'.isPlaying
       /\ (SynthCall("play") /\ synth.isPlaying) =>
              /\ synth' = synth
              /\ timers' = timers
              /\ fired' = <<>>
       /\ Cardinality(timers') = IF synth'.isPlaying THEN 1 ELSE 0]_vars

\* play() was called on a sequencer that is Scheduling and past its step 0.
C11_PlayWhilePlaying ==
    /\ synthOp.op = "play" /\ synthOp.was = "playing"
    /\ synth.isPlaying /\ synth.current16thNote = 1
    /\ Cardinality(timers) = 1

\* C12: stop() is idempotent: whatever the state at the first stop() (never
\* played, Scheduling, already Idle), a second stop() right after it leaves
\* stepIndex, nextEventTime, tempo, style and the pattern table as they
\* were after the first, and the sequencer Idle.
C12_StopIdempotent ==
    [][(SynthCall("stop") /\ synthOp.op = "stop") =>
          /\ synth'.current16thNote = synth.current16thNote
          /\ synth'.nextNoteTime = synth.nextNoteTime
          /\ synth'.tempo = synth.tempo
          /\ synth'.style = synth.style
          /\ synth'.bassPattern = synth.bassPattern
          /\ ~synth'.isPlaying
          /\ timers' = timers]_vars

\* Two stop() calls in a row on a sequencer that had been Scheduling.
C12_StoppedTwice ==
    /\ synthOp.op = "stop" /\ synthOp.prev = "stop"
    /\ synth.current16thNote > 0

\* C13: after stop() has returned, no scheduler invocation runs and no voice
\* is fired until the next play(), also when the pending timer was already
\* due at the moment of the stop().
C13_NothingRunsAfterStop ==
    stopped => (synthOp.op # "scheduler" /\ fired = <<>>)

\* stop() came while the pending timer was due, and time has passed since.
C13_StopWonTheRace ==
    /\ stopped /\ synthOp.op = "stop" /\ synthOp.was = "due"
    /\ audioTime >= 100

\* C14: in Hard style the 16 consecutive steps of any one bar fire exactly 4
\* kick voices, on bar positions 0, 4, 8 and 12, whatever the random choices
\* for hats, bass and percussion.
C14_FourKicksPerBar ==
    (bar.n = 16 /\ bar.hard) =>
        (bar.kicks = {0, 4, 8, 12} /\ Cardinality(bar.kicks) = 4)

\* The last bar of the 64-step pattern fired in full in Hard style.
C14_FourthBarFired == bar.n = 16 /\ bar.hard /\ bar.k = 3

\* The tempo and the pattern table of style st.
InStyle(s, st) ==
    /\ s.style = st
    /\ Len(s.bassPattern) = 64
    /\ IF st = "hard"
       THEN /\ 140 <= s.tempo /\ s.tempo < 145
            /\ \A i \in 1..64 : s.bassPattern[i] \in {0, 45 * Scale, 90 * Scale}
       ELSE /\ 126 <= s.tempo /\ s.tempo < 130
            /\ \A i \in 1..64 :
                  s.bassPattern[i] \in {0, 55 * Scale, (165 * Scale) \div 2}

C16_UnknownStyleRejected ==
    [][((SynthCall("regenerate") \/ (~synth.made /\ synth'.made))
            /\ synthOp'.arg \notin Styles) =>
          /\ synth'.style = synth.style
          /\ synth'.tempo = synth.tempo
          /\ synth'.bassPattern = synth.bassPattern]_vars

\* Whether a note fired a kick voice.
HasKick(note) == note.voices \cap KickVoices # {}

\* C17 as claimed: in both styles a kick voice fires at a step if and only
\* if step % 16 = 0.
C17_KickOnlyOnBarStart ==
    \A i \in DOMAIN fired : HasKick(fired[i]) <=> fired[i].step % 16 = 0

\* C17 as amended: in both styles a kick voice fires at a step if and only
\* if its bar position step % 16 is a multiple of 4 (every quarter note).
C17_KickOnEveryQuarter ==
    \A i \in DOMAIN fired :
        HasKick(fired[i]) <=> (fired[i].step % 16) \in {0, 4, 8, 12}

\* A Minimal-style kick on the last quarter of the second bar.
C17_KickOnLaterQuarter ==
    \E i \in DOMAIN fired :
        fired[i].step = 28 /\ ~fired[i].hard /\ fired[i].voices \cap KickVoices = {"kick"}

\* C18: in the analysis loop the displayed BPM is replaced by a detected
\* value only if the two differ by at least 5 BPM and more than 1000 ms have
\* passed since the previous evaluation; when detectBpm returns no estimate,
\* or the difference is under 5, the displayed BPM keeps its last value.
C18_BpmHysteresis ==
    [][loopPc = "bpm" =>
          /\ bpm' # bpm =>
                /\ ~bpmRet'.null
                /\ bpm' = bpmRet'.val
                /\ Abs(bpm - bpmRet'.val) >= 5
                /\ now' - lastBpmUpdate > 1000
          /\ (bpmRet'.null \/ Abs(bpm - bpmRet'.val) < 5) => bpm' = bpm]_vars

\* The 128 BPM shown for system audio has been replaced by a detected 120.
C18_DetectedReplaced ==
    /\ mode = "system" /\ loopPc = "idle"
    /\ ~bpmRet.null /\ bpmRet.val = 120
    /\ bpm = 120 /\ lastBpmUpdate = now

\* C19: whenever the sequencer is Scheduling, started by handleGenerate or
\* by togglePlay in synth mode, its master output bus is connected to the
\* analyser and is the source sourceRef records, after any sequence of source
\* switches.
C19_PlayingSynthIsTheSource ==
    synth.isPlaying => ("synth" \in connected /\ sourceRef = "synth")

\* C20: the sequencer is Scheduling only while the mode is synth, for every
\* interleaving of handleGenerate's deferred callback with handleFileChange,
\* handleSystemAudio and togglePlay.
C20_PlayingOnlyInSynthMode == synth.isPlaying => mode = "synth"

\* C21: an onset (bass energy above the threshold and above 80) that comes
\* 250 ms or less after lastBeatTime is rejected and changes nothing:
\* lastBeatTime, the interval history and the threshold, apart from the
\* call's decay and floor, are what a call without onset leaves.
C21_DebouncedOnsetChangesNothing ==
    [][\A e \in BassLevels :
          (/\ DetectBpm(e, now')
           /\ IsOnset(e, Decayed(beat.threshold))
           /\ ~Debounced(now', beat.lastBeatTime))
          => beat' = [beat EXCEPT !.threshold = Decayed(beat.threshold)]]_vars

\* C22: after every detectBpm call the threshold is at least 80, and within a
\* call it changes only by the 0.95 decay with its floor and by the onset
\* assignment bassEnergy * 1.1, which is strictly greater than the value it
\* replaces: the threshold is never directly lowered.
C22_ThresholdFloorAndRaise ==
    [][LET decayed == Max2((beat.threshold * 95) \div 100, 80 * Scale)
       IN  /\ beat'.threshold >= 80 * Scale
           /\ \/ beat'.threshold = decayed
              \/ \E e \in BassLevels :
                    /\ DetectBpm(e, now')
                    /\ beat'.threshold = (e * 11) \div 10
                    /\ beat'.threshold > decayed
                    /\ beat'.threshold > beat.threshold]_vars

\* An accepted onset of energy 200 has just stored an interval and put the
\* threshold at 220.
C22_OnsetRaisedThreshold ==
    /\ beat.threshold = 220 * Scale
    /\ beat.lastBeatTime = now
    /\ Len(beat.intervals) >= 1

\* C23: the interval history always holds at most 8 entries, each strictly
\* between 300 and 1000, in arrival order with the oldest dropped first; an
\* accepted onset whose interval is outside (300, 1000) still updates
\* lastBeatTime and leaves the history unchanged.
C23_BoundedFifo ==
    [][LET old == beat.intervals
           new == beat'.intervals
           i == now' - beat.lastBeatTime
       IN  /\ Len(new) <= 8
           /\ \A k \in 1..Len(new) : 300 < new[k] /\ new[k] < 1000
           /\ \/ new = old
              \/ Len(old) < 8 /\ new = Append(old, i)
              \/ Len(old) = 8 /\ new = Append(Tail(old), i)
           /\ \A e \in FifoLevels :
                 (/\ DetectBpm(e, now')
                  /\ e > Max2((beat.threshold * 95) \div 100, 80 * Scale)
                  /\ i > 250
                  /\ ~(300 < i /\ i < 1000))
                 => beat'.lastBeatTime = now' /\ new = old]_vars

\* The history is full, its oldest entry has been shifted out, and the
\* entries kept are not all the same.
C23_OldestDropped ==
    /\ shifted >= 1
    /\ Len(beat.intervals) = 8
    /\ beat.intervals[1] # beat.intervals[8]

\* C24: between a play() and the following stop(), with no regenerate in
\* between, the steps the scheduler fires form the sequence 0, 1, ..., 63, 0,
\* 1, ... with no step skipped or repeated, every step index in [0, 64), and
\* consecutive timestamps growing by exactly 0.25 * (60 / tempo). Stated per
\* scheduler run: its notes continue where the run before it, or play(),
\* left the cursor, and leave the cursor one sixteenth after the last note.
C24_StepsInSequence ==
    [][timerSeq' # timerSeq =>
          LET notes == fired'
              n == Len(notes)
              sixteenth == (15000 * Scale) \div synth'.tempo
              first == IF synthOp'.op = "play"
                       THEN [step |-> 0, time |-> (audioTime + 50) * Scale]
                       ELSE [step |-> synth.current16thNote,
                             time |-> synth.nextNoteTime]
              cursor == [step |-> synth'.current16thNote,
                         time |-> synth'.nextNoteTime]
              At_(k) == IF k <= n
                        THEN [step |-> notes[k].step, time |-> notes[k].time]
                        ELSE cursor
          IN  /\ sixteenth > 0
              /\ At_(1) = first
              /\ \A k \in 1..n :
                    /\ notes[k].step \in 0..63
                    /\ At_(k + 1).step = (notes[k].step + 1) % 64
                    /\ At_(k + 1).time = notes[k].time + sixteenth]_vars

\* Step 0 fired again after the 64 steps of the pattern.
C24_WrappedToStepZero ==
    \E k \in 1..Len(fired) :
        fired[k].step = 0 /\ fired[k].time > 6000 * Scale

\* C25: every scheduler invocation ends with nextNoteTime at least 0.1 s
\* after the audio clock, so whenever an invocation comes less than 0.1 s
\* after the one before it (the 25 ms timer running tens of milliseconds
\* late), every voice it fires has a timestamp not earlier than the audio
\* clock at that moment.
C25_FiredAheadOfClock ==
    [][timerSeq' # timerSeq =>
          LET late == \E tm \in timers \ timers' :
                          audioTime - (tm.due - 25) >= 100
          IN  /\ synth'.nextNoteTime >= (audioTime + 100) * Scale
              /\ ~late => \A k \in 1..Len(fired') :
                              fired'[k].time >= audioTime * Scale]_vars

\* A timer callback, running after the first note's time has passed, fired
\* the next note ahead of the clock.
C25_NoteFiredByTimer ==
    /\ synthOp.op = "scheduler"
    /\ audioTime >= 75
    /\ fired # <<>>
    /\ fired[1].step = 1
    /\ fired[1].time >= audioTime * Scale

\* Some outcome of the two Math.random() calls of step i makes
\* generateHardPattern store freq there.
CanHold(i, freq) ==
    \E a, b \in 0..(Len(RollSeq) - 1) :
        HardEntry(i, Stream(0, a), Stream(0, b)) = freq

\* The steps of the pattern at which generateHardPattern can store the root,
\* and those at which it can store the octave.
RootSteps == {i \in 0..63 : CanHold(i, 45 * Scale)}
OctaveSteps == {i \in 0..63 : CanHold(i, 90 * Scale)}

\* The entries of the sequencer's Hard pattern are rests, 45 Hz or 90 Hz;
\* the notes stand on bar positions in bass, the 90 Hz ones on 13, 14, 15.
HardPatternOn(bass) ==
    (synth.made /\ synth.style = "hard") =>
        \A i \in 0..63 :
            LET f == synth.bassPattern[i + 1]
            IN  /\ f \in {0, 45 * Scale, 90 * Scale}
                /\ f # 0 => (i % 16) \in bass
                /\ f = 90 * Scale => (i % 16) \in {13, 14, 15}

\* C26 as claimed: a generated Hard pattern holds a nonzero frequency only at
\* steps with step % 16 # 0, the 45 Hz root can occur at every such step
\* (each of bar positions 1..15), and the octave-up 90 Hz occurs only at bar
\* positions 13, 14 and 15.
C26_BassOffTheDownbeat ==
    /\ HardPatternOn(1..15)
    /\ RootSteps = {i \in 0..63 : (i % 16) \in 1..15}

\* C26 as amended: a generated Hard pattern holds a nonzero frequency only at
\* steps whose bar position is no multiple of 4, the 45 Hz root can occur at
\* every such step and at no other, and the 90 Hz octave occurs only at bar
\* positions 13, 14 and 15, at each of which it can occur.
C26_BassOffTheQuarters ==
    /\ HardPatternOn((1..15) \ {4, 8, 12})
    /\ RootSteps = {i \in 0..63 : (i % 16) % 4 # 0}
    /\ OctaveSteps = {i \in 0..63 : (i % 16) \in {13, 14, 15}}

\* A Hard pattern with the root on every bar position that is no multiple of
\* 4, and the octave on each of the positions 13, 14 and 15, in some bar.
C26_RollingBassWithOctaves ==
    /\ synth.made /\ synth.style = "hard"
    /\ \A p \in (1..15) \ {4, 8, 12} :
          \E k \in 0..3 : synth.bassPattern[16 * k + p + 1] = 45 * Scale
    /\ \A p \in {13, 14, 15} :
          \E k \in 0..3 : synth.bassPattern[16 * k + p + 1] = 90 * Scale

\* C27: after any sequence of play(), stop(), regenerate() and timer firings
\* at most one scheduler timeout is pending, it is the one timerID names, and
\* none is pending while the sequencer is idle: two scheduler chains never
\* run side by side.
C27_OneSchedulerChain ==
    /\ Cardinality(timers) <= 1
    /\ \A tm \in timers : tm.id = synth.timerID
    /\ ~synth.isPlaying => timers = {}

\* The sequencer was started, stopped while its timeout was pending, and
\* has just been started again: only the new chain's timeout is pending.
C27_SecondChainRunning ==
    /\ synthOp.op = "play" /\ synthOp.was = "idle" /\ synthOp.prev = "stop"
    /\ timerSeq >= 2
    /\ synth.isPlaying
    /\ timers = {[id |-> timerSeq, due |-> audioTime + 25]}

\* C28: at most one source node is connected to the analyser at any time,
\* and it is the node recorded as the current source, under every
\* interleaving of connectSource, connectAudioNode and the asynchronous
\* connectMicrophone / connectSystemAudio, whose connect step runs after an
\* await.
C28_OneRecordedSource ==
    /\ Cardinality(connected) <= 1
    /\ connected \subseteq {sourceRef}

\* C29: the first accepted onset after initialisation only sets lastBeatTime
\* and adds no interval to the history, whatever its timestamp: every stored
\* interval is the distance between two accepted onsets.
C29_FirstOnsetStoresNothing ==
    [][(beat.lastBeatTime = 0 /\ beat'.lastBeatTime # 0)
          => beat'.intervals = <<>>]_vars

\* C30: once detectBpm has returned a BPM value, every later call also
\* returns one, for any later input, bass energy 0 included: the interval
\* history never shrinks below 4 entries and is never cleared by silence,
\* stopAll or a source change.
C30_EstimateNeverLost ==
    [][~bpmRet.null =>
          /\ ~bpmRet'.null
          /\ Len(beat'.intervals) >= 4
          /\ Len(beat'.intervals) >= Len(beat.intervals)]_vars

\* After the file gave an estimate of 120, the source was changed to system
\* audio, which shows 128, and a later call on the new source returned 120
\* again and replaced the 128.
C30_EstimateSurvivedSourceChange ==
    /\ mode = "system" /\ audioSrc
    /\ ~bpmRet.null
    /\ bpm = 120 /\ bpmRet.val = 120

====
